---- MODULE Spec2Model ----
(***************************************************************************)
(* Real-time status synchronisation of team-status.                        *)
(*                                                                         *)
(* Server side (backend/db.js, backend/server.js): the in-memory cache     *)
(* liveStatuses, the statuses table, the websocket handlers open, message  *)
(* and close, and the broadcast topic.                                     *)
(*                                                                         *)
(* Client side (the WebSocket management part of the data service): the    *)
(* module-level socket, the listener set, the reconnect counter and timer. *)
(***************************************************************************)
EXTENDS Integers, Sequences, FiniteSets, TLC

VARIABLES
    liveStatuses,   \* db.js: let liveStatuses = {}   userId -> (date -> statusText)
    dbRows,         \* rows of table statuses: <<employee_id, status_date>> -> status_text
    wsState,        \* server side state of each websocket: "new", "open", "closed"
    subscribers,    \* the websockets subscribed to WS_TOPIC
    outbox,         \* per websocket, the messages the server has sent to it, in order
    handled,        \* number of inbound messages the message handler has processed
    success,        \* what saveStatusDB returned in the message handler that ran last, or "none"
    lastFrame,      \* the websocket and the frame of the message handler that ran last
    restarts,       \* number of times the server process has been started again
    loaded,         \* how loadInitialStatuses ended at the last start: "ok" or "failed"
    httpResponse,   \* the response to the /api/statuses request, when the step that ran
                    \* last was one
    socket,             \* client: let socket = null   (0, or the id of a WebSocket object)
    transports,         \* client: the WebSocket objects not yet closed: readyState, handlers set
    messageListeners,   \* client: the listener Set, in insertion order
    reconnectAttempts,  \* client: let reconnectAttempts = 0
    reconnectTimeoutId, \* client: let reconnectTimeoutId = null   (0, or a timer id)
    timers,             \* client: the timers set and neither fired nor cleared
    autoAttempts,       \* client: connection attempts made by the timer since the last
                        \*         connectWebSocket() or open event
    giveUps,            \* client: "Giving up" errors logged since the last
                        \*         connectWebSocket() or open event
    lastDispatch,       \* client: the notifyListeners call of the step that ran last
    resumed,            \* client: connectWebSocket() has been called after the agent gave up
    sendSeq,            \* client: number of sendWebSocketMessage calls
    transmitted,        \* client: the calls whose message was handed to socket.send
    lastCall,           \* client: the call of addWebSocketMessageListener or of a remover
                        \*         it returned, when the step that ran last was one
    session             \* the agent's connections to this server: which websocket each
                        \*         WebSocket object is the other end of, how many of the
                        \*         server's messages have arrived on it, what the listeners
                        \*         were given since the last open event, the App's statuses

serverVars == <<liveStatuses, dbRows, wsState, subscribers, outbox, handled, success, lastFrame,
                restarts, loaded, httpResponse>>

agentVars == <<socket, transports, reconnectAttempts, reconnectTimeoutId, timers,
               autoAttempts, giveUps, lastDispatch, resumed>>

clientVars == <<agentVars, messageListeners, sendSeq, transmitted, lastCall, session>>

vars == <<serverVars, clientVars>>

-----------------------------------------------------------------------------
(* Bounds of the model *)

\* inbound websocket messages handled in one run
MaxMsgs == 2

\* the websockets that may connect
Conns == {"ws1", "ws2"}

\* restarts of the server process in one run
MaxRestarts == 1

\* sendWebSocketMessage calls in one run
MaxSends == 2

\* the callbacks components register
Listeners == {"l1", "l2"}

-----------------------------------------------------------------------------
(* JavaScript values carried by inbound messages.  Strings that the code   *)
(* inspects character by character (date, statusText) are sequences of     *)
(* characters; so is userId.  The type tag of a message is only compared   *)
(* with literals and is kept as a string.                                  *)

Undefined == [t |-> "undefined"]
Num(n) == [t |-> "number", v |-> n]
Str(s) == [t |-> "string", v |-> s]

\* typeof x
TypeOf(x) == x.t

\* !x  for the value kinds above
Falsy(x) ==
    CASE x.t = "undefined" -> TRUE
      [] x.t = "number" -> x.v = 0
      [] x.t = "string" -> x.v = <<>>
      [] OTHER -> FALSE

Digits == {"0", "1", "2", "3", "4", "5", "6", "7", "8", "9"}

\* /^\d{4}-\d{2}-\d{2}$/.test(date)     (server.js:531)
DateRegexTest(s) ==
    /\ Len(s) = 10
    /\ \A i \in {1, 2, 3, 4, 6, 7, 9, 10} : s[i] \in Digits
    /\ s[5] = "-"
    /\ s[8] = "-"

Whitespace == {" ", "\t", "\n"}

\* the text is empty or whitespace-only
IsBlank(s) == \A i \in 1..Len(s) : s[i] \in Whitespace

D15 == <<"2", "0", "2", "5", "-", "0", "1", "-", "1", "5">>
D16 == <<"2", "0", "2", "5", "-", "0", "1", "-", "1", "6">>

Emp1 == <<"e", "1">>
Emp2 == <<"e", "2">>

Texts == {<<>>, <<" ">>, <<"a">>, <<" ", "b">>}

\* malformed day strings: "2025-1-5", "20250105"
BadDates ==
    { <<"2", "0", "2", "5", "-", "1", "-", "5">>,
      <<"2", "0", "2", "5", "0", "1", "0", "5">> }

\* a payload object { userId, date, statusText }
Payload(u, d, s) ==
    [t |-> "object", v |-> [userId |-> u, date |-> d, statusText |-> s]]

\* a JSON object { type, payload }
Obj(type, payload) == [k |-> "json", data |-> [t |-> "object", type |-> type, payload |-> payload]]

\* well-formed updates
GoodMessages ==
    { Obj(Str("status_update"), Payload(Str(Emp1), Str(D15), Str(s))) : s \in Texts }
    \cup
    { Obj(Str("status_update"), Payload(Str(Emp2), Str(D15), Str(<<"a">>))),
      Obj(Str("status_update"), Payload(Str(Emp1), Str(D16), Str(<<"a">>))),
      Obj(Str("typing"), Payload(Str(Emp1), Str(D15), Str(<<"a">>))) }

\* updates with one field missing, mistyped, empty or ill-formed
BadFieldMessages ==
    { Obj(Str("status_update"), Payload(u, Str(D15), Str(<<"a">>))) :
        u \in {Undefined, Str(<<>>)} }
    \cup
    { Obj(Str("status_update"), Payload(Str(Emp1), d, Str(<<"a">>))) :
        d \in {Str(<<>>)} \cup {Str(b) : b \in BadDates} }
    \cup
    { Obj(Str("status_update"), Payload(Str(Emp1), Str(D15), s)) :
        s \in {Undefined, Num(7)} }

\* frames that are no JSON, JSON null, JSON primitives, objects without a
\* payload, and other message types
OtherMessages ==
    { [k |-> "garbage"],
      [k |-> "json", data |-> [t |-> "null"]],
      [k |-> "json", data |-> Num(5)],
      Obj(Str("status_update"), Undefined),
      Obj(Str("ping"), Undefined),
      Obj(Str("ping"), Payload(Str(Emp1), Str(D15), Str(<<"a">>))) }

Messages == GoodMessages \cup BadFieldMessages \cup OtherMessages

-----------------------------------------------------------------------------
(* backend/db.js *)

\* the empty object {}
EmptyObj == [k \in {} |-> k]

\* obj[key] = value on a JavaScript object
SetKey(obj, key, value) ==
    [k \in DOMAIN obj \cup {key} |-> IF k = key THEN value ELSE obj[k]]

\* the forEach of loadInitialStatuses over the rows not yet visited
RECURSIVE LoadRows(_, _, _)
LoadRows(rows, keys, loadedStatuses) ==
    IF keys = {} THEN loadedStatuses
    ELSE LET k == CHOOSE x \in keys : TRUE
             l1 == IF k[1] \in DOMAIN loadedStatuses
                   THEN loadedStatuses
                   ELSE SetKey(loadedStatuses, k[1], EmptyObj)
             l2 == IF k[2] \notin DOMAIN l1[k[1]] \/ l1[k[1]][k[2]] = <<>>
                   THEN SetKey(l1, k[1], SetKey(l1[k[1]], k[2], rows[k]))
                   ELSE l1
         IN  LoadRows(rows, keys \ {k}, l2)

\* loadInitialStatuses() leaving out the rows whose text is empty
loadInitialStatusesSkipEmpty(rows, loadThrows) ==
    IF loadThrows THEN EmptyObj
    ELSE LoadRows(rows, {k \in DOMAIN rows : rows[k] # <<>>}, EmptyObj)

\* loadInitialStatuses(): the new value of liveStatuses; loadThrows is
\* whether the query throws
loadInitialStatuses(rows, loadThrows) ==
    IF loadThrows THEN EmptyObj
    ELSE LoadRows(rows, DOMAIN rows, EmptyObj)

\* the statuses read back from the table rather than from the cache
getAllStatusesFromTable ==
    [u \in {k[1] : k \in DOMAIN dbRows} |->
        [d \in {k[2] : k \in {j \in DOMAIN dbRows : j[1] = u}} |-> dbRows[<<u, d>>]]]

\* getAllStatuses(): the live cache itself
getAllStatuses == liveStatuses

\* the insert that leaves an existing row of the pair as it is
\* (ON CONFLICT DO NOTHING)
UpsertKeepFirst(rows, userId, date, statusText) ==
    IF <<userId, date>> \in DOMAIN rows THEN rows
    ELSE SetKey(rows, <<userId, date>>, statusText)

\* INSERT ... ON CONFLICT(employee_id, status_date) DO UPDATE SET status_text
Upsert(rows, userId, date, statusText) ==
    SetKey(rows, <<userId, date>>, statusText)

\* saveStatusDB writing the cache only once the row is stored
saveStatusDBPersistFirst(cache, rows, userId, date, statusText, dbThrows) ==
    LET inner == IF userId \in DOMAIN cache THEN cache[userId] ELSE EmptyObj
        cache2 == SetKey(cache, userId, SetKey(inner, date, statusText))
    IN  IF dbThrows
        THEN [cache |-> cache, rows |-> rows, success |-> FALSE]
        ELSE [cache |-> cache2, rows |-> SetKey(rows, <<userId, date>>, statusText),
              success |-> TRUE]

\* s.trim(): s without its leading and trailing whitespace
Trim(s) ==
    LET keep == {i \in 1..Len(s) : s[i] \notin Whitespace}
    IN  IF keep = {} THEN <<>>
        ELSE SubSeq(s, CHOOSE i \in keep : \A j \in keep : i <= j,
                       CHOOSE i \in keep : \A j \in keep : i >= j)

\* saveStatusDB adding the text to the one the cache holds (+= for =)
saveStatusDBAppend(cache, rows, userId, date, statusText, dbThrows) ==
    LET inner == IF userId \in DOMAIN cache THEN cache[userId] ELSE EmptyObj
        old == IF date \in DOMAIN inner THEN inner[date] ELSE <<>>
        cache2 == SetKey(cache, userId, SetKey(inner, date, old \o statusText))
    IN  IF dbThrows
        THEN [cache |-> cache2, rows |-> rows, success |-> FALSE]
        ELSE [cache |-> cache2, rows |-> Upsert(rows, userId, date, statusText),
              success |-> TRUE]

\* saveStatusDB upserting the trimmed text while the cache takes the text
\* as received
saveStatusDBRowTrimmed(cache, rows, userId, date, statusText, dbThrows) ==
    LET inner == IF userId \in DOMAIN cache THEN cache[userId] ELSE EmptyObj
        cache2 == SetKey(cache, userId, SetKey(inner, date, statusText))
    IN  IF dbThrows
        THEN [cache |-> cache2, rows |-> rows, success |-> FALSE]
        ELSE [cache |-> cache2, rows |-> Upsert(rows, userId, date, Trim(statusText)),
              success |-> TRUE]

\* saveStatusDB(userId, date, statusText): the cache is written first, then
\* the row is upserted; dbThrows is whether query.run throws.  The result is
\* the cache, the table and the value returned.
saveStatusDB(cache, rows, userId, date, statusText, dbThrows) ==
    LET inner == IF userId \in DOMAIN cache THEN cache[userId] ELSE EmptyObj
        cache2 == SetKey(cache, userId, SetKey(inner, date, statusText))
    IN  IF dbThrows
        THEN [cache |-> cache2, rows |-> rows, success |-> FALSE]
        ELSE [cache |-> cache2, rows |-> Upsert(rows, userId, date, statusText),
              success |-> TRUE]

-----------------------------------------------------------------------------
(* backend/server.js, the websocket handlers *)

AllStatusesMsg(payload) == [type |-> "all_statuses", payload |-> payload]

StatusUpdateMsg(userId, date, statusText) ==
    [type |-> "status_update",
     payload |-> [userId |-> userId, date |-> date, statusText |-> statusText]]

ErrorMsg(text) == [type |-> "error", message |-> text]

\* the message published to the topic instead of sent on ws
WsSendToTopic(out, ws, msg) ==
    [c \in DOMAIN out |-> IF c \in subscribers \cup {ws} THEN Append(out[c], msg) ELSE out[c]]

\* ws.send(msg)
WsSend(out, ws, msg) == [out EXCEPT ![ws] = Append(@, msg)]

\* ws.publish(WS_TOPIC, msg): every subscriber except ws itself
WsPublish(out, subs, ws, msg) ==
    [c \in DOMAIN out |-> IF c \in subs \ {ws} THEN Append(out[c], msg) ELSE out[c]]

\* server.publish(WS_TOPIC, msg), called from the handler of websocket ws:
\* one delivery to every subscriber of the topic, ws included
ServerPublish(out, subs, ws, msg) ==
    [c \in DOMAIN out |-> IF c \in subs THEN Append(out[c], msg) ELSE out[c]]

\* const { userId, date, statusText } = data.payload: a field of the payload;
\* reading a field of a primitive gives undefined
Field(payload, name) ==
    IF payload.t = "object" THEN payload.v[name] ELSE Undefined

\* the field check without the date pattern
ValidUpdateNoPattern(userId, date, statusText) ==
    ~ \/ Falsy(userId)
      \/ Falsy(date)
      \/ TypeOf(statusText) = "undefined"
      \/ TypeOf(userId) # "string"
      \/ TypeOf(date) # "string"
      \/ TypeOf(statusText) # "string"

\* the condition of the if at server.js:531, negated
ValidUpdate(userId, date, statusText) ==
    ~ \/ Falsy(userId)
      \/ Falsy(date)
      \/ TypeOf(statusText) = "undefined"
      \/ TypeOf(userId) # "string"
      \/ TypeOf(date) # "string"
      \/ TypeOf(statusText) # "string"
      \/ ~DateRegexTest(date.v)

\* the branches without the test of data.type
BranchAnyType(m) ==
    IF m.k = "garbage" THEN "catch"
    ELSE IF m.data.t = "null" THEN "catch"
    ELSE IF m.data.t # "object" THEN "unknown"
    ELSE IF m.data.payload.t \in {"undefined", "null"} THEN "catch"
    ELSE IF ValidUpdate(Field(m.data.payload, "userId"),
                        Field(m.data.payload, "date"),
                        Field(m.data.payload, "statusText")) THEN "update"
    ELSE "invalid"

\* the branch the message handler takes for a frame:
\*   "catch"    JSON.parse, data.type or the destructuring of payload throws
\*   "invalid"  the field check at line 531 fails
\*   "update"   saveStatusDB is called
\*   "unknown"  the else branch for other message types
Branch(m) ==
    IF m.k = "garbage" THEN "catch"
    ELSE IF m.data.t = "null" THEN "catch"
    ELSE IF m.data.t # "object" THEN "unknown"
    ELSE IF m.data.type \notin {Str("typing"), Str("status_update")} THEN "unknown"
    ELSE IF m.data.payload.t \in {"undefined", "null"} THEN "catch"
    ELSE IF ValidUpdate(Field(m.data.payload, "userId"),
                        Field(m.data.payload, "date"),
                        Field(m.data.payload, "statusText")) THEN "update"
    ELSE "invalid"

\* the step was no /api/statuses request
NoResponse == [status |-> 0]

\* no message handler has run since the process started
NoFrame == [ws |-> "none"]

ServerInit ==
    /\ liveStatuses = EmptyObj
    /\ dbRows = EmptyObj
    /\ wsState = [c \in Conns |-> "new"]
    /\ subscribers = {}
    /\ outbox = [c \in Conns |-> <<>>]
    /\ handled = 0
    /\ success = "none"
    /\ lastFrame = NoFrame
    /\ restarts = 0
    /\ loaded = "ok"
    /\ httpResponse = NoResponse

\* websocket.open(ws)
WsOpen(ws) ==
    /\ wsState[ws] = "new"
    /\ wsState' = [wsState EXCEPT ![ws] = "open"]
    /\ subscribers' = subscribers \cup {ws}
    /\ outbox' = WsSend(outbox, ws, AllStatusesMsg(getAllStatuses))
    /\ httpResponse' = NoResponse
    /\ UNCHANGED <<liveStatuses, dbRows, handled, success, lastFrame, restarts, loaded,
                   clientVars>>

\* websocket.message(ws, message), the frame taking branch "update":
\* saveStatusDB, then publish on success, an error to the sender otherwise
WsUpdate(ws, m, dbThrows) ==
    LET userId == Field(m.data.payload, "userId").v
        date == Field(m.data.payload, "date").v
        statusText == Field(m.data.payload, "statusText").v
        r == saveStatusDB(liveStatuses, dbRows, userId, date, statusText, dbThrows)
    IN  /\ liveStatuses' = r.cache
        /\ dbRows' = r.rows
        /\ success' = IF r.success THEN "true" ELSE "false"
        /\ outbox' =
             IF r.success
             THEN ServerPublish(outbox, subscribers, ws,
                                StatusUpdateMsg(userId, date, statusText))
             ELSE WsSend(outbox, ws, ErrorMsg("Failed to save status update on server"))

\* websocket.message(ws, message)
WsMessage(ws, m) ==
    /\ wsState[ws] = "open"
    /\ handled < MaxMsgs
    /\ handled' = handled + 1
    /\ lastFrame' = [ws |-> ws, msg |-> m]
    /\ httpResponse' = NoResponse
    /\ UNCHANGED <<wsState, subscribers, restarts, loaded, clientVars>>
    /\ CASE Branch(m) = "catch" ->
              /\ outbox' = WsSend(outbox, ws, ErrorMsg("Invalid message format or server error"))
              /\ success' = "none"
              /\ UNCHANGED <<liveStatuses, dbRows>>
         [] Branch(m) = "invalid" ->
              /\ outbox' = WsSend(outbox, ws, ErrorMsg("Invalid status update data or format"))
              /\ success' = "none"
              /\ UNCHANGED <<liveStatuses, dbRows>>
         [] Branch(m) = "unknown" ->
              /\ success' = "none"
              /\ UNCHANGED <<liveStatuses, dbRows, outbox>>
         [] Branch(m) = "update" ->
              \E dbThrows \in BOOLEAN : WsUpdate(ws, m, dbThrows)

\* websocket.close without the unsubscribe
WsCloseNoUnsubscribe(ws) ==
    /\ wsState[ws] \in {"open", "closed"}
    /\ wsState' = [wsState EXCEPT ![ws] = "closed"]
    /\ httpResponse' = NoResponse
    /\ UNCHANGED <<liveStatuses, dbRows, subscribers, outbox, handled, success, lastFrame,
                   restarts, loaded, clientVars>>

\* websocket.close(ws, code, message); should the handler run again for a
\* websocket already closed, its unsubscribe finds nothing to remove
WsClose(ws) ==
    /\ wsState[ws] \in {"open", "closed"}
    /\ wsState' = [wsState EXCEPT ![ws] = "closed"]
    /\ httpResponse' = NoResponse
    /\ subscribers' = subscribers \ {ws}
    /\ UNCHANGED <<liveStatuses, dbRows, outbox, handled, success, lastFrame, restarts, loaded,
                   clientVars>>

\* GET /api/statuses: the cache is read and sent as the body
GetStatuses ==
    /\ httpResponse' = [status |-> 200, body |-> getAllStatuses]
    /\ UNCHANGED <<liveStatuses, dbRows, wsState, subscribers, outbox, handled, success,
                   lastFrame, restarts, loaded, clientVars>>

\* POST /api/statuses saving the status of its body, as a status endpoint
\* of a REST interface would
PostStatusesSaves(userId, date, statusText) ==
    LET r == saveStatusDB(liveStatuses, dbRows, userId, date, statusText, FALSE)
    IN  /\ liveStatuses' = r.cache
        /\ dbRows' = r.rows
        /\ httpResponse' = [status |-> 200, body |-> r.cache]
        /\ UNCHANGED <<wsState, subscribers, outbox, handled, success, lastFrame, restarts,
                       loaded, clientVars>>

\* POST /api/statuses with a body { userId, date, statusText }: answered 405,
\* the body is not looked at
PostStatuses(userId, date, statusText) ==
    /\ httpResponse' = [status |-> 405]
    /\ UNCHANGED <<liveStatuses, dbRows, wsState, subscribers, outbox, handled, success,
                   lastFrame, restarts, loaded, clientVars>>

\* the server process ends and is started again: the module code of db.js
\* runs loadInitialStatuses() on the table as it is, and no websocket of
\* the old process is left
Restart(loadThrows) ==
    /\ restarts < MaxRestarts
    /\ restarts' = restarts + 1
    /\ liveStatuses' = loadInitialStatuses(dbRows, loadThrows)
    /\ loaded' = IF loadThrows THEN "failed" ELSE "ok"
    /\ httpResponse' = NoResponse
    /\ wsState' = [c \in Conns |-> "new"]
    /\ subscribers' = {}
    /\ outbox' = [c \in Conns |-> <<>>]
    /\ success' = "none"
    /\ lastFrame' = NoFrame
    /\ UNCHANGED <<dbRows, handled, clientVars>>

-----------------------------------------------------------------------------
(* The client agent: WebSocket management of the data service *)

MAX_RECONNECT_ATTEMPTS == 5

\* the module-level state the connection functions read and write
Agent ==
    [socket |-> socket, transports |-> transports,
     reconnectAttempts |-> reconnectAttempts, reconnectTimeoutId |-> reconnectTimeoutId,
     timers |-> timers, autoAttempts |-> autoAttempts, giveUps |-> giveUps,
     lastDispatch |-> lastDispatch, resumed |-> resumed]

NoDispatch == [msg |-> [type |-> "none"]]

\* the step was no call of the listener interface
NoCall == [op |-> "none"]

\* WebSocket objects that are CLOSED and that socket does not reference take
\* no further part
Collect(a) ==
    [a EXCEPT !.transports =
        [id \in {i \in DOMAIN a.transports :
                    a.transports[i].readyState # "CLOSED" \/ i = a.socket}
           |-> a.transports[id]]]

SetAgent(a) ==
    /\ socket' = a.socket
    /\ transports' = Collect(a).transports
    /\ reconnectAttempts' = a.reconnectAttempts
    /\ reconnectTimeoutId' = a.reconnectTimeoutId
    /\ timers' = a.timers
    /\ autoAttempts' = a.autoAttempts
    /\ giveUps' = a.giveUps
    /\ lastDispatch' = a.lastDispatch
    /\ resumed' = a.resumed

\* socket.readyState, for socket # null
ReadyState(a) == a.transports[a.socket].readyState

\* { type: 'connection_status', payload }
ConnectionStatus(payload) == [type |-> "connection_status", payload |-> payload]

\* the forEach of notifyListeners from the i-th listener on; throwers are
\* the listeners that throw on this message
RECURSIVE ForEachListener(_, _, _, _)
ForEachListener(ls, i, throwers, invoked) ==
    IF i > Len(ls)
    THEN [invoked |-> invoked, propagated |-> FALSE]
    ELSE ForEachListener(ls, i + 1, throwers, [invoked EXCEPT ![ls[i]] = @ + 1])

\* the same loop without the try/catch around listener(message)
RECURSIVE ForEachListenerNoCatch(_, _, _, _)
ForEachListenerNoCatch(ls, i, throwers, invoked) ==
    IF i > Len(ls)
    THEN [invoked |-> invoked, propagated |-> FALSE]
    ELSE IF ls[i] \in throwers
         THEN [invoked |-> [invoked EXCEPT ![ls[i]] = @ + 1], propagated |-> TRUE]
         ELSE ForEachListenerNoCatch(ls, i + 1, throwers, [invoked EXCEPT ![ls[i]] = @ + 1])

notifyListenersNoCatch(ls, message, throwers) ==
    [msg |-> message, threw |-> throwers \cap {ls[i] : i \in 1..Len(ls)}]
       @@ ForEachListenerNoCatch(ls, 1, throwers, [l \in Listeners |-> 0])

\* notifyListeners(message): how often each listener was invoked, and whether
\* an exception left the function
notifyListeners(ls, message, throwers) ==
    [msg |-> message, threw |-> throwers \cap {ls[i] : i \in 1..Len(ls)}]
       @@ ForEachListener(ls, 1, throwers, [l \in Listeners |-> 0])

\* clearTimeout(reconnectTimeoutId)
ClearTimeout(a) == [a EXCEPT !.timers = @ \ {a.reconnectTimeoutId}]

\* the id setTimeout returns: one that is neither pending nor remembered
NewTimerId(a) == IF a.reconnectTimeoutId = 1 THEN 2 ELSE 1

\* handleWebSocketClose() leaving the four handlers on the socket it drops
handleWebSocketCloseKeepHandlers(a, ls, throwers) ==
    LET a1 == IF a.socket # 0 THEN [a EXCEPT !.socket = 0] ELSE a
        a2 == [a1 EXCEPT !.lastDispatch =
                  notifyListeners(ls, ConnectionStatus("closed"), throwers)]
    IN  IF a2.lastDispatch.propagated THEN a2
        ELSE IF a2.reconnectAttempts < MAX_RECONNECT_ATTEMPTS
        THEN LET a3 == IF a2.reconnectTimeoutId # 0 THEN ClearTimeout(a2) ELSE a2
                 t == NewTimerId(a3)
             IN  [a3 EXCEPT !.reconnectAttempts = @ + 1,
                            !.reconnectTimeoutId = t,
                            !.timers = @ \cup {t}]
        ELSE [a2 EXCEPT !.giveUps = @ + 1]

\* handleWebSocketClose() with <= in place of < in the retry test
handleWebSocketCloseOffByOne(a, ls, throwers) ==
    LET a1 == IF a.socket # 0
              THEN [a EXCEPT !.transports[a.socket].hooked = FALSE, !.socket = 0]
              ELSE a
        a2 == [a1 EXCEPT !.lastDispatch =
                  notifyListeners(ls, ConnectionStatus("closed"), throwers)]
    IN  IF a2.lastDispatch.propagated THEN a2
        ELSE IF a2.reconnectAttempts <= MAX_RECONNECT_ATTEMPTS
        THEN LET a3 == IF a2.reconnectTimeoutId # 0 THEN ClearTimeout(a2) ELSE a2
                 t == NewTimerId(a3)
             IN  [a3 EXCEPT !.reconnectAttempts = @ + 1,
                            !.reconnectTimeoutId = t,
                            !.timers = @ \cup {t}]
        ELSE [a2 EXCEPT !.giveUps = @ + 1]

\* handleWebSocketClose()
handleWebSocketClose(a, ls, throwers) ==
    LET a1 == IF a.socket # 0
              THEN [a EXCEPT !.transports[a.socket].hooked = FALSE, !.socket = 0]
              ELSE a
        a2 == [a1 EXCEPT !.lastDispatch =
                  notifyListeners(ls, ConnectionStatus("closed"), throwers)]
    IN  IF a2.lastDispatch.propagated THEN a2
        ELSE IF a2.reconnectAttempts < MAX_RECONNECT_ATTEMPTS
        THEN LET a3 == IF a2.reconnectTimeoutId # 0 THEN ClearTimeout(a2) ELSE a2
                 t == NewTimerId(a3)
             IN  [a3 EXCEPT !.reconnectAttempts = @ + 1,
                            !.reconnectTimeoutId = t,
                            !.timers = @ \cup {t}]
        ELSE [a2 EXCEPT !.giveUps = @ + 1]

\* the identity of the object new WebSocket returns: the least one that no
\* object still in use bears
NewSocketId(a) ==
    CHOOSE i \in 1..(Cardinality(DOMAIN a.transports) + 1) :
       /\ i \notin DOMAIN a.transports
       /\ \A j \in 1..(i - 1) : j \in DOMAIN a.transports

\* the test at the head of connectWebSocketInternal
AlreadyConnected(a) ==
    a.socket # 0 /\ ReadyState(a) \in {"OPEN", "CONNECTING"}

\* connectWebSocketInternal() without the clearing of the pending reconnect
\* timeout
connectWebSocketInternalNoClear(a, ls, byTimer, ctorThrows, throwers) ==
    IF AlreadyConnected(a) THEN a
    ELSE LET a2 == [a EXCEPT !.autoAttempts = IF byTimer THEN @ + 1 ELSE @]
             id == NewSocketId(a)
         IN  IF ctorThrows
             THEN handleWebSocketClose(a2, ls, throwers)
             ELSE [a2 EXCEPT !.socket = id,
                             !.transports =
                                 @ @@ (id :> [readyState |-> "CONNECTING", hooked |-> TRUE])]

\* connectWebSocketInternal(); byTimer tells the reconnect timer's call from
\* the call by connectWebSocket(), ctorThrows is whether new WebSocket throws
connectWebSocketInternal(a, ls, byTimer, ctorThrows, throwers) ==
    IF AlreadyConnected(a) THEN a
    ELSE LET a1 == IF a.reconnectTimeoutId # 0
                   THEN [ClearTimeout(a) EXCEPT !.reconnectTimeoutId = 0]
                   ELSE a
             a2 == [a1 EXCEPT !.autoAttempts = IF byTimer THEN @ + 1 ELSE @]
             id == NewSocketId(a)
         IN  IF ctorThrows
             THEN handleWebSocketClose(a2, ls, throwers)
             ELSE [a2 EXCEPT !.socket = id,
                             !.transports =
                                 @ @@ (id :> [readyState |-> "CONNECTING", hooked |-> TRUE])]

\* the test of connectWebSocket() and of the hook's mount effect
MayConnect(a) == a.socket = 0 \/ ReadyState(a) = "CLOSED"

ClientInit ==
    /\ socket = 0
    /\ transports = EmptyObj
    /\ messageListeners = <<>>
    /\ reconnectAttempts = 0
    /\ reconnectTimeoutId = 0
    /\ timers = {}
    /\ autoAttempts = 0
    /\ giveUps = 0
    /\ lastDispatch = NoDispatch
    /\ resumed = FALSE
    /\ lastCall = NoCall
    /\ sendSeq = 0
    /\ transmitted = {}
    /\ session = [link |-> EmptyObj, used |-> {}, conn |-> "none", observed |-> <<>>,
                  view |-> EmptyObj]

Quiet(a) == [a EXCEPT !.lastDispatch = NoDispatch]

\* connectWebSocket() without the reset of reconnectAttempts
ConnectWebSocketNoReset(ctorThrows, throwers) ==
    /\ IF MayConnect(Agent)
       THEN SetAgent(connectWebSocketInternal(
                [Quiet(Agent) EXCEPT !.autoAttempts = 0, !.giveUps = 0,
                                     !.resumed = @ \/ giveUps = 1],
                messageListeners, FALSE, ctorThrows, throwers))
       ELSE SetAgent(Quiet(Agent))
    /\ lastCall' = NoCall
    /\ UNCHANGED <<messageListeners, sendSeq, transmitted, serverVars>>

\* connectWebSocket()
ConnectWebSocket(ctorThrows, throwers) ==
    /\ IF MayConnect(Agent)
       THEN SetAgent(connectWebSocketInternal(
                [Quiet(Agent) EXCEPT !.reconnectAttempts = 0, !.autoAttempts = 0, !.giveUps = 0,
                                     !.resumed = @ \/ giveUps = 1],
                messageListeners, FALSE, ctorThrows, throwers))
       ELSE SetAgent(Quiet(Agent))
    /\ lastCall' = NoCall
    /\ UNCHANGED <<messageListeners, sendSeq, transmitted, serverVars>>

\* the reconnect timer t fires: setTimeout(connectWebSocketInternal, RECONNECT_DELAY)
TimerFires(t, ctorThrows, throwers) ==
    /\ t \in timers
    /\ SetAgent(connectWebSocketInternal([Quiet(Agent) EXCEPT !.timers = @ \ {t}],
                                         messageListeners, TRUE, ctorThrows, throwers))
    /\ lastCall' = NoCall
    /\ UNCHANGED <<messageListeners, sendSeq, transmitted, serverVars>>

\* socket.onopen without the reset of reconnectAttempts
TransportOpenNoReset(id, throwers) ==
    /\ id \in DOMAIN transports
    /\ transports[id].readyState = "CONNECTING"
    /\ LET a == [Quiet(Agent) EXCEPT !.transports[id].readyState = "OPEN"]
       IN  IF transports[id].hooked
           THEN SetAgent([a EXCEPT !.autoAttempts = 0, !.giveUps = 0,
                                   !.lastDispatch =
                                       notifyListeners(messageListeners,
                                                       ConnectionStatus("open"), throwers)])
           ELSE SetAgent(a)
    /\ lastCall' = NoCall
    /\ UNCHANGED <<messageListeners, sendSeq, transmitted, serverVars>>

\* socket.onopen without the notification of the listeners
TransportOpenNoNotify(id, throwers) ==
    /\ id \in DOMAIN transports
    /\ transports[id].readyState = "CONNECTING"
    /\ LET a == [Quiet(Agent) EXCEPT !.transports[id].readyState = "OPEN"]
       IN  IF transports[id].hooked
           THEN SetAgent([a EXCEPT !.reconnectAttempts = 0, !.autoAttempts = 0, !.giveUps = 0])
           ELSE SetAgent(a)
    /\ lastCall' = NoCall
    /\ UNCHANGED <<messageListeners, sendSeq, transmitted, serverVars>>

\* the handshake of WebSocket id succeeds: socket.onopen
TransportOpen(id, throwers) ==
    /\ id \in DOMAIN transports
    /\ transports[id].readyState = "CONNECTING"
    /\ LET a == [Quiet(Agent) EXCEPT !.transports[id].readyState = "OPEN"]
       IN  IF transports[id].hooked
           THEN SetAgent([a EXCEPT !.reconnectAttempts = 0, !.autoAttempts = 0, !.giveUps = 0,
                                   !.lastDispatch =
                                       notifyListeners(messageListeners,
                                                       ConnectionStatus("open"), throwers)])
           ELSE SetAgent(a)
    /\ lastCall' = NoCall
    /\ UNCHANGED <<messageListeners, sendSeq, transmitted, serverVars>>

\* frames the server sends; "garbage" is one JSON.parse throws on
ServerFrames == {"all_statuses", "status_update", "garbage"}

\* a frame arrives on WebSocket id: socket.onmessage
TransportMessage(id, frame, throwers) ==
    /\ id \in DOMAIN transports
    /\ transports[id].readyState \in {"OPEN", "CLOSING"}
    /\ IF transports[id].hooked /\ frame # "garbage"
       THEN SetAgent([Agent EXCEPT !.lastDispatch =
                         notifyListeners(messageListeners, [type |-> frame], throwers)])
       ELSE SetAgent(Quiet(Agent))
    /\ lastCall' = NoCall
    /\ UNCHANGED <<messageListeners, sendSeq, transmitted, serverVars>>

\* an error event on WebSocket id: socket.onerror only logs
TransportError(id) ==
    /\ id \in DOMAIN transports
    /\ transports[id].readyState # "CLOSED"
    /\ SetAgent(Quiet(Agent))
    /\ lastCall' = NoCall
    /\ UNCHANGED <<messageListeners, sendSeq, transmitted, serverVars>>

\* the closing handshake of WebSocket id starts
TransportClosing(id) ==
    /\ id \in DOMAIN transports
    /\ transports[id].readyState = "OPEN"
    /\ SetAgent([Quiet(Agent) EXCEPT !.transports[id].readyState = "CLOSING"])
    /\ lastCall' = NoCall
    /\ UNCHANGED <<messageListeners, sendSeq, transmitted, serverVars>>

\* WebSocket id closes (failed handshake or closed connection): socket.onclose
TransportClose(id, throwers) ==
    /\ id \in DOMAIN transports
    /\ transports[id].readyState # "CLOSED"
    /\ LET a == [Quiet(Agent) EXCEPT !.transports[id].readyState = "CLOSED"]
       IN  IF transports[id].hooked
           THEN SetAgent(handleWebSocketClose(a, messageListeners, throwers))
           ELSE SetAgent(a)
    /\ lastCall' = NoCall
    /\ UNCHANGED <<messageListeners, sendSeq, transmitted, serverVars>>

\* the test of sendWebSocketMessage on any socket at hand
CanSendAnySocket(a) == a.socket # 0

\* the test of sendWebSocketMessage: socket && socket.readyState === WebSocket.OPEN
CanSend(a) == a.socket # 0 /\ ReadyState(a) = "OPEN"

\* sendWebSocketMessage(message); sendThrows is whether
\* socket.send(JSON.stringify(message)) throws
SendWebSocketMessage(sendThrows, throwers) ==
    /\ sendSeq < MaxSends
    /\ sendSeq' = sendSeq + 1
    /\ IF CanSend(Agent)
       THEN IF sendThrows
            THEN /\ SetAgent(handleWebSocketClose(Quiet(Agent), messageListeners, throwers))
                 /\ transmitted' = transmitted
            ELSE /\ SetAgent(Quiet(Agent))
                 /\ transmitted' = transmitted \cup {sendSeq + 1}
       ELSE /\ SetAgent(Quiet(Agent))
            /\ transmitted' = transmitted
    /\ lastCall' = NoCall
    /\ UNCHANGED <<messageListeners, serverVars>>

\* addWebSocketMessageListener(callback) with a function
AddListener(l) ==
    /\ messageListeners' =
          IF \E i \in 1..Len(messageListeners) : messageListeners[i] = l
          THEN messageListeners
          ELSE Append(messageListeners, l)
    /\ lastCall' = [op |-> "add", l |-> l]
    /\ SetAgent(Quiet(Agent))
    /\ UNCHANGED <<sendSeq, transmitted, serverVars>>

\* the remover emptying the whole Set (clear for delete)
RemoveListenerClear(l) ==
    /\ messageListeners' = <<>>
    /\ lastCall' = [op |-> "remove", l |-> l,
                    was |-> \E i \in 1..Len(messageListeners) : messageListeners[i] = l]
    /\ SetAgent(Quiet(Agent))
    /\ UNCHANGED <<sendSeq, transmitted, serverVars>>

\* the function addWebSocketMessageListener returned for l is called; was
\* records whether l was in the Set
RemoveListener(l) ==
    /\ messageListeners' = SelectSeq(messageListeners, LAMBDA x : x # l)
    /\ lastCall' = [op |-> "remove", l |-> l,
                    was |-> \E i \in 1..Len(messageListeners) : messageListeners[i] = l]
    /\ SetAgent(Quiet(Agent))
    /\ UNCHANGED <<sendSeq, transmitted, serverVars>>

\* addWebSocketMessageListener(callback) with a callback that is no
\* function: an error is logged and a remover that does nothing is returned
AddInvalidListener ==
    /\ lastCall' = [op |-> "addInvalid"]
    /\ SetAgent(Quiet(Agent))
    /\ UNCHANGED <<messageListeners, sendSeq, transmitted, serverVars>>

\* the remover returned for a callback that is no function is called
RemoveNothing ==
    /\ lastCall' = [op |-> "removeNothing"]
    /\ SetAgent(Quiet(Agent))
    /\ UNCHANGED <<messageListeners, sendSeq, transmitted, serverVars>>

\* the listeners in the Set
Registered == {messageListeners[i] : i \in 1..Len(messageListeners)}

ClientNext ==
    \/ \E c \in BOOLEAN, th \in SUBSET Registered :
          ConnectWebSocket(c, th) /\ UNCHANGED session
    \/ \E t \in timers, c \in BOOLEAN, th \in SUBSET Registered :
          TimerFires(t, c, th) /\ UNCHANGED session
    \/ \E id \in DOMAIN transports, th \in SUBSET Registered :
          TransportOpen(id, th) /\ UNCHANGED session
    \/ \E id \in DOMAIN transports, f \in ServerFrames, th \in SUBSET Registered :
          TransportMessage(id, f, th) /\ UNCHANGED session
    \/ \E id \in DOMAIN transports : TransportError(id) /\ UNCHANGED session
    \/ \E id \in DOMAIN transports : TransportClosing(id) /\ UNCHANGED session
    \/ \E id \in DOMAIN transports, th \in SUBSET Registered :
          TransportClose(id, th) /\ UNCHANGED session
    \/ \E st \in BOOLEAN, th \in SUBSET Registered :
          SendWebSocketMessage(st, th) /\ UNCHANGED session
    \/ \E l \in Listeners : AddListener(l) /\ UNCHANGED session
    \/ \E l \in Listeners : RemoveListener(l) /\ UNCHANGED session
    \/ AddInvalidListener /\ UNCHANGED session
    \/ RemoveNothing /\ UNCHANGED session

-----------------------------------------------------------------------------
(* The server with its websockets; the client agent with its transports *)

Init == ServerInit /\ ClientInit

Next ==
    \/ \E ws \in Conns : WsOpen(ws)
    \/ \E ws \in Conns, m \in Messages : WsMessage(ws, m)
    \/ \E ws \in Conns : WsClose(ws)

Spec == Init /\ [][Next]_vars

RestartNext ==
    \/ Next
    \/ \E loadThrows \in BOOLEAN : Restart(loadThrows)

\* the server over several lives of its process
RestartSpec == Init /\ [][RestartNext]_vars

HttpNext ==
    \/ Next
    \/ GetStatuses
    \/ PostStatuses(Emp2, D16, <<"a">>)

\* the server with its websockets and its /api/statuses route
HttpSpec == Init /\ [][HttpNext]_vars

\* the server whose event loop runs the handler of every event that is
\* pending: no handler is held back for ever
FairSpec == Spec /\ WF_vars(Next)

ClientSpec == Init /\ [][ClientNext]_vars

-----------------------------------------------------------------------------
(* What the claims say about an inbound frame, stated on the frame itself *)

IsJsonObject(m) == m.k = "json" /\ m.data.t = "object"

HasPayload(m) == IsJsonObject(m) /\ m.data.payload.t = "object"

\* non-empty string subject, day matching the pattern, string text
PassesValidation(m) ==
    /\ HasPayload(m)
    /\ m.data.payload.v.userId.t = "string"
    /\ m.data.payload.v.userId.v # <<>>
    /\ m.data.payload.v.date.t = "string"
    /\ DateRegexTest(m.data.payload.v.date.v)
    /\ m.data.payload.v.statusText.t = "string"

IsUpdateType(m) ==
    IsJsonObject(m) /\ m.data.type \in {Str("typing"), Str("status_update")}

SubjectOf(m) == m.data.payload.v.userId.v
DayOf(m) == m.data.payload.v.date.v
TextOf(m) == m.data.payload.v.statusText.v

HasEntry(cache, u, d) == u \in DOMAIN cache /\ d \in DOMAIN cache[u]

IsError(msg) == msg.type = "error"

\* exactly one error message is sent, to ws only
OneErrorTo(ws) ==
    /\ Len(outbox'[ws]) = Len(outbox[ws]) + 1
    /\ SubSeq(outbox'[ws], 1, Len(outbox[ws])) = outbox[ws]
    /\ IsError(outbox'[ws][Len(outbox'[ws])])
    /\ \A c \in Conns \ {ws} : outbox'[c] = outbox[c]

-----------------------------------------------------------------------------
\* a message handler has just run: Frame is its frame, Sender its websocket
Handled == handled' # handled
Frame == lastFrame'.msg
Sender == lastFrame'.ws

-----------------------------------------------------------------------------
\* C1: for every inbound update that passes validation and has non-blank
\* text, right after the handler has run saveStatusDB the cache returned by
\* getAllStatuses holds exactly that text under [subject][day], whatever
\* updates came before.
C1_CacheHoldsText ==
    \A ws \in Conns :
       (/\ lastFrame.ws = ws
        /\ IsUpdateType(lastFrame.msg)
        /\ PassesValidation(lastFrame.msg)
        /\ ~IsBlank(TextOf(lastFrame.msg)))
          => /\ HasEntry(getAllStatuses, SubjectOf(lastFrame.msg), DayOf(lastFrame.msg))
             /\ getAllStatuses[SubjectOf(lastFrame.msg)][DayOf(lastFrame.msg)]
                   = TextOf(lastFrame.msg)

\* a non-blank text with a leading space is in the cache although its
\* upsert threw, after another update
C1_Witness ==
    /\ lastFrame.ws = "ws1"
    /\ handled = 2
    /\ success = "false"
    /\ HasEntry(liveStatuses, Emp1, D15)
    /\ liveStatuses[Emp1][D15] = <<" ", "b">>
    /\ <<Emp1, D15>> \notin DOMAIN dbRows

\* C2: tombstone removal: no cache entry and no stored row ever holds blank
\* (empty or whitespace-only) text, a blank update removing the day key and
\* the row instead.
C2_NoBlankStored ==
    /\ \A u \in DOMAIN liveStatuses : \A d \in DOMAIN liveStatuses[u] :
          ~IsBlank(liveStatuses[u][d])
    /\ \A k \in DOMAIN dbRows : ~IsBlank(dbRows[k])

ReachesFieldCheck(m) ==
    \/ m.k = "garbage"
    \/ m.data.t = "null"
    \/ IsUpdateType(m)

C4_FailedPersistStillPublished ==
    [][(Handled /\ IsUpdateType(Frame) /\ PassesValidation(Frame) /\ success' = "false")
          => \A c \in Conns :
               outbox'[c] =
                  IF wsState[c] = "open"
                  THEN Append(outbox[c],
                              StatusUpdateMsg(SubjectOf(Frame), DayOf(Frame), TextOf(Frame)))
                  ELSE outbox[c]]_vars

\* C5: every accepted update (saveStatusDB returned true) results in exactly
\* one status_update message carrying exactly its userId, date and
\* statusText, delivered to every websocket open at that moment, the sender
\* included, and to no other.
C5_OneUpdateToEveryOpen ==
    [][(Handled /\ success' = "true")
          => \A c \in Conns :
               outbox'[c] =
                  IF wsState[c] = "open"
                  THEN Append(outbox[c],
                              [type |-> "status_update",
                               payload |-> [userId |-> SubjectOf(Frame), date |-> DayOf(Frame),
                                            statusText |-> TextOf(Frame)]])
                  ELSE outbox[c]]_vars

\* both websockets are open and the update sent by ws1 has reached both
C5_Witness ==
    /\ success = "true"
    /\ lastFrame.ws = "ws1"
    /\ \A c \in Conns :
          /\ wsState[c] = "open"
          /\ Len(outbox[c]) = 2
          /\ outbox[c][2] = StatusUpdateMsg(Emp2, D15, <<"a">>)

\* C6: a websocket that opens is sent exactly one all_statuses message, to
\* it alone, carrying the cache as it is at that moment; it is the first
\* message of that websocket, and no later message to it is a snapshot.
C6_SnapshotOnConnect ==
    /\ [][\A ws \in Conns :
            (wsState[ws] = "new" /\ wsState'[ws] = "open")
               => /\ outbox'[ws] = <<[type |-> "all_statuses", payload |-> liveStatuses]>>
                  /\ \A c \in Conns \ {ws} : outbox'[c] = outbox[c]]_vars
    /\ [](\A ws \in Conns :
            /\ wsState[ws] = "new" => outbox[ws] = <<>>
            /\ wsState[ws] # "new" =>
                 /\ Len(outbox[ws]) >= 1
                 /\ outbox[ws][1].type = "all_statuses"
                 /\ \A i \in 2..Len(outbox[ws]) : outbox[ws][i].type # "all_statuses")

\* a websocket opened after two updates to different pairs, one of them not
\* stored, holds a snapshot with both
C6_Witness ==
    /\ wsState["ws2"] = "open"
    /\ Len(outbox["ws2"]) = 1
    /\ outbox["ws2"][1].type = "all_statuses"
    /\ outbox["ws2"][1].payload = liveStatuses
    /\ HasEntry(liveStatuses, Emp1, D15)
    /\ HasEntry(liveStatuses, Emp2, D15)
    /\ DOMAIN dbRows # {<<Emp1, D15>>, <<Emp2, D15>>}

-----------------------------------------------------------------------------
(* The client agent as the claims see it *)

\* the agent holds a socket that is OPEN
AgentOpen == socket # 0 /\ transports[socket].readyState = "OPEN"

\* the WebSocket objects with a handshake under way or a connection open
ActiveTransports ==
    {id \in DOMAIN transports : transports[id].readyState \in {"CONNECTING", "OPEN"}}

\* the step called notifyListeners
Dispatched == lastDispatch'.msg.type # "none"

\* C7: while no handshake succeeds and connectWebSocket() is not called
\* again, the reconnect timer makes at most MAX_RECONNECT_ATTEMPTS (5)
\* connection attempts and never a 6th; once the budget is used up the agent
\* has no socket and no timer, and "Giving up" has been logged exactly once.
C7_ReconnectionBound ==
    /\ autoAttempts <= MAX_RECONNECT_ATTEMPTS
    /\ giveUps <= 1
    /\ giveUps = 1 =>
          /\ autoAttempts = MAX_RECONNECT_ATTEMPTS
          /\ socket = 0
          /\ timers = {}
    /\ (reconnectAttempts = MAX_RECONNECT_ATTEMPTS /\ socket = 0 /\ timers = {}) => giveUps = 1

\* five attempts by the timer have failed and the agent has given up
C7_Witness ==
    /\ giveUps = 1
    /\ autoAttempts = MAX_RECONNECT_ATTEMPTS
    /\ reconnectAttempts = MAX_RECONNECT_ATTEMPTS
    /\ DOMAIN transports = {}

\* C8: under any interleaving of connectWebSocket() calls, timer firings,
\* sends and transport events, at most one WebSocket of the agent is
\* CONNECTING or OPEN at any time.
C8_SingleConnection == Cardinality(ActiveTransports) <= 1

\* earlier calls neither gain nor lose their transmission in this step
NoLateTransmission ==
    \A k \in 1..sendSeq : (k \in transmitted') <=> (k \in transmitted)

\* C9 as stated: a call of sendWebSocketMessage hands its message to the
\* transport if and only if the agent is Open, and a message not handed over
\* at its call is never transmitted later.
C9_SendIffOpen ==
    [][/\ (sendSeq' # sendSeq) => (AgentOpen <=> (sendSeq' \in transmitted'))
       /\ NoLateTransmission]_vars

\* C9 (amended): a call of sendWebSocketMessage hands its message to the
\* transport if and only if the agent is Open and socket.send(JSON.stringify(
\* message)) does not throw; when it throws while Open the message is not
\* transmitted and the agent runs its close handling; in any other state the
\* message is dropped and the agent is left as it is; a message not handed
\* over at its call is never transmitted later.
C9_SendIffOpenAndNoThrow ==
    [][/\ (sendSeq' # sendSeq) =>
             /\ (sendSeq' \in transmitted') => (AgentOpen /\ socket' = socket)
             /\ (AgentOpen /\ sendSeq' \notin transmitted') =>
                   /\ socket' = 0
                   /\ lastDispatch'.msg = ConnectionStatus("closed")
             /\ ~AgentOpen =>
                   /\ sendSeq' \notin transmitted'
                   /\ <<socket, transports, reconnectAttempts, reconnectTimeoutId, timers>>'
                         = <<socket, transports, reconnectAttempts, reconnectTimeoutId, timers>>
       /\ NoLateTransmission]_vars

\* the first message was dropped while connecting, the second was handed
\* over once the socket was open
C9_Witness ==
    /\ sendSeq = 2
    /\ transmitted = {2}
    /\ AgentOpen

\* C10: on every notifyListeners call each registered listener is invoked
\* exactly once and no other is, whichever listeners throw; no exception
\* leaves the call, so the handler goes on as without a throw: after a
\* 'closed' notification the socket is dropped and a reconnect is scheduled
\* or the agent has given up, after an 'open' notification the socket is
\* kept and the retry counter is zero.
C10_ListenerIsolation ==
    [][Dispatched =>
          /\ \A l \in Listeners :
                lastDispatch'.invoked[l] = IF l \in Registered THEN 1 ELSE 0
          /\ ~lastDispatch'.propagated
          /\ lastDispatch'.msg = ConnectionStatus("closed") =>
                /\ socket' = 0
                /\ \/ reconnectTimeoutId' \in timers'
                   \/ giveUps' = 1
          /\ lastDispatch'.msg = ConnectionStatus("open") =>
                /\ socket' = socket
                /\ transports'[socket].readyState = "OPEN"
                /\ reconnectAttempts' = 0]_vars

\* the listener registered first threw on a 'closed' notification, the
\* second was invoked all the same and the reconnect is scheduled
C10_Witness ==
    /\ lastDispatch.msg = ConnectionStatus("closed")
    /\ Len(messageListeners) = 2
    /\ lastDispatch.threw = {messageListeners[1]}
    /\ lastDispatch.invoked[messageListeners[2]] = 1
    /\ timers # {}

-----------------------------------------------------------------------------
\* C11: an error message is delivered only to the websocket whose inbound
\* message caused it: whenever a step adds an error message to the messages
\* sent to a websocket, the step is a message handler and that websocket is
\* its sender; no error is published to the topic.
C11_ErrorsPointToPoint ==
    [][\A c \in Conns :
         \A i \in (Len(outbox[c]) + 1)..Len(outbox'[c]) :
            IsError(outbox'[c][i]) => (Handled /\ c = Sender)]_vars

\* both websockets received the broadcast of an update, then ws1 alone the
\* error its second message caused
C11_Witness ==
    /\ lastFrame.ws = "ws1"
    /\ wsState["ws2"] = "open"
    /\ Len(outbox["ws1"]) = 3
    /\ outbox["ws1"][2].type = "status_update"
    /\ IsError(outbox["ws1"][3])
    /\ Len(outbox["ws2"]) = 2
    /\ outbox["ws2"][2].type = "status_update"

-----------------------------------------------------------------------------
\* C12: once the retry budget is used up (the agent has logged "Giving up")
\* the agent has no socket and no timer, and no step other than an explicit
\* connectWebSocket() call changes its socket, timer or counter or creates a
\* WebSocket; that call resets the counter to zero and constructs a new
\* WebSocket (CONNECTING, counter 0, no timer; or, when the constructor
\* throws, the first of again MAX_RECONNECT_ATTEMPTS retries is scheduled),
\* with the whole budget of automatic attempts available again.
C12_TerminalUntilConnect ==
    /\ [](giveUps = 1 =>
            /\ socket = 0
            /\ timers = {}
            /\ reconnectAttempts = MAX_RECONNECT_ATTEMPTS)
    /\ [][giveUps = 1 =>
            \/ /\ UNCHANGED <<socket, timers, reconnectAttempts, reconnectTimeoutId,
                              giveUps, autoAttempts>>
               /\ DOMAIN transports' \subseteq DOMAIN transports
            \/ /\ resumed'
               /\ giveUps' = 0
               /\ autoAttempts' = 0
               /\ \/ /\ socket' # 0
                     /\ socket' \notin DOMAIN transports
                     /\ transports'[socket'].readyState = "CONNECTING"
                     /\ reconnectAttempts' = 0
                     /\ timers' = {}
                  \/ /\ socket' = 0
                     /\ DOMAIN transports' \subseteq DOMAIN transports
                     /\ reconnectAttempts' = 1
                     /\ reconnectTimeoutId' \in timers']_vars

\* after giving up the agent was connected again by connectWebSocket(), and
\* the timer has then made all five attempts of the new budget
C12_Witness ==
    /\ resumed
    /\ giveUps = 1
    /\ autoAttempts = MAX_RECONNECT_ATTEMPTS
    /\ socket = 0
    /\ timers = {}

-----------------------------------------------------------------------------
IsStatusUpdateType(m) == IsJsonObject(m) /\ m.data.type = Str("status_update")

\* the step sends no status_update message to any websocket
NoNewStatusUpdate ==
    \A c \in Conns :
       \A i \in (Len(outbox[c]) + 1)..Len(outbox'[c]) :
          outbox'[c][i].type # "status_update"

\* C13 as stated: an inbound message whose type is anything other than
\* status_update never changes the cache or the table, runs no upsert and
\* causes no broadcast.
C13_OnlyStatusUpdateActs ==
    [][(Handled /\ ~IsStatusUpdateType(Frame))
          => /\ liveStatuses' = liveStatuses
             /\ dbRows' = dbRows
             /\ success' = "none"
             /\ NoNewStatusUpdate]_vars

\* C13 (amended): status_update and typing are the only message kinds the
\* server acts on, and it treats them alike: an inbound message of any other
\* type never changes the cache or the table, runs no upsert and causes no
\* broadcast, while a typing message that passes validation is saved and
\* broadcast exactly as a status_update is.
C13_OnlyUpdateTypesAct ==
    [][/\ (Handled /\ ~IsUpdateType(Frame))
             => /\ liveStatuses' = liveStatuses
                /\ dbRows' = dbRows
                /\ success' = "none"
                /\ NoNewStatusUpdate
       /\ (Handled /\ IsUpdateType(Frame) /\ PassesValidation(Frame))
             => /\ success' # "none"
                /\ HasEntry(liveStatuses', SubjectOf(Frame), DayOf(Frame))
                /\ liveStatuses'[SubjectOf(Frame)][DayOf(Frame)] = TextOf(Frame)
                /\ success' = "true" =>
                      /\ dbRows'[<<SubjectOf(Frame), DayOf(Frame)>>] = TextOf(Frame)
                      /\ outbox'[Sender] =
                            Append(outbox[Sender],
                                   StatusUpdateMsg(SubjectOf(Frame), DayOf(Frame),
                                                   TextOf(Frame)))]_vars

\* a message of type ping carrying a well-formed payload was handled after a
\* typing message had been saved: the ping left cache and table as they were
\* and the sender got nothing for it
C13_Witness ==
    /\ handled = 2
    /\ lastFrame.ws = "ws1"
    /\ lastFrame.msg = Obj(Str("ping"), Payload(Str(Emp1), Str(D15), Str(<<"a">>)))
    /\ wsState["ws2"] = "new"
    /\ outbox["ws1"] = << AllStatusesMsg(EmptyObj), StatusUpdateMsg(Emp1, D16, <<"a">>) >>
    /\ ~HasEntry(liveStatuses, Emp1, D15)

-----------------------------------------------------------------------------
\* the status_update messages for the pair (u, d) among the messages sent to
\* websocket c, in the order sent
UpdatesFor(c, u, d) ==
    SelectSeq(outbox[c],
              LAMBDA msg : /\ msg.type = "status_update"
                           /\ msg.payload.userId = u
                           /\ msg.payload.date = d)

\* C15: last-write-wins.  Whatever websockets the updates to one (subject,
\* day) come from, after each of them the cache holds the text of the update
\* handled last; when its upsert succeeded the table holds that text for the
\* pair (the table has one row per pair), and its status_update is appended
\* behind every status_update sent before, on every subscribed websocket, so
\* that the broadcasts go out in the order the updates were applied.
C15_LastWriteWins ==
    [][(Handled /\ IsUpdateType(Frame) /\ PassesValidation(Frame))
          => /\ liveStatuses'[SubjectOf(Frame)][DayOf(Frame)] = TextOf(Frame)
             /\ success' = "true" =>
                   /\ dbRows'[<<SubjectOf(Frame), DayOf(Frame)>>] = TextOf(Frame)
                   /\ \A c \in subscribers :
                         /\ Len(outbox'[c]) = Len(outbox[c]) + 1
                         /\ SubSeq(outbox'[c], 1, Len(outbox[c])) = outbox[c]
                         /\ outbox'[c][Len(outbox'[c])].payload.statusText = TextOf(Frame)
             /\ success' = "false" => dbRows' = dbRows]_vars

\* ws1 and then ws2 updated the same pair: both received the two broadcasts
\* in that order, and cache and table hold the text ws2 sent
C15_Witness ==
    /\ lastFrame.ws = "ws2"
    /\ success = "true"
    /\ HasEntry(liveStatuses, Emp1, D15)
    /\ liveStatuses[Emp1][D15] = <<" ", "b">>
    /\ <<Emp1, D15>> \in DOMAIN dbRows
    /\ dbRows[<<Emp1, D15>>] = <<" ", "b">>
    /\ \A c \in Conns :
          /\ Len(UpdatesFor(c, Emp1, D15)) = 2
          /\ UpdatesFor(c, Emp1, D15)[1].payload.statusText = <<"a">>
          /\ UpdatesFor(c, Emp1, D15)[2].payload.statusText = <<" ", "b">>

-----------------------------------------------------------------------------
\* every (subject, day) of the cache has a row in the table with the same
\* text
CacheInStore ==
    \A u \in DOMAIN liveStatuses : \A d \in DOMAIN liveStatuses[u] :
       /\ <<u, d>> \in DOMAIN dbRows
       /\ dbRows[<<u, d>>] = liveStatuses[u][d]

\* a handler has just run whose upsert threw
PersistFailed == Handled /\ success' = "false"

\* C16 as stated: whatever happens, the table eventually holds every pair of
\* the cache with identical text.
C16_EventuallyConsistent == []<>CacheInStore

\* C16 (amended): cache and table agree on every pair of the cache at the
\* start, and every step other than one whose upsert fails keeps them in
\* agreement, so they agree in every state of a run in which no persistence
\* step failed; once a failed upsert has made them differ the server does
\* nothing to reconcile them: only the handling of a later inbound update
\* brings them to agree again.
C16_ConsistentUnlessPersistFailed ==
    /\ CacheInStore
    /\ [][(CacheInStore /\ ~PersistFailed) => CacheInStore']_vars
    /\ [][(~CacheInStore /\ CacheInStore')
             => (Handled /\ IsUpdateType(Frame) /\ PassesValidation(Frame))]_vars

\* two updates to different pairs were stored: cache and table hold both
C16_Witness ==
    /\ handled = 2
    /\ success = "true"
    /\ DOMAIN dbRows = {<<Emp1, D15>>, <<Emp1, D16>>}
    /\ HasEntry(liveStatuses, Emp1, D15)
    /\ HasEntry(liveStatuses, Emp1, D16)
    /\ liveStatuses[Emp1][D15] = <<" ", "b">>
    /\ CacheInStore

-----------------------------------------------------------------------------
\* C17: no rollback.  When the upsert of an update throws, the cache keeps
\* the new text of (subject, day) and the table keeps what it held; a
\* websocket that opens is sent the cache as it is, so that a snapshot sent
\* after the failure carries the new text while the table holds the old one.
C17_NoRollback ==
    /\ [][(PersistFailed /\ IsUpdateType(Frame) /\ PassesValidation(Frame))
             => /\ HasEntry(liveStatuses', SubjectOf(Frame), DayOf(Frame))
                /\ liveStatuses'[SubjectOf(Frame)][DayOf(Frame)] = TextOf(Frame)
                /\ dbRows' = dbRows]_vars
    /\ [][\A ws \in Conns :
            (wsState[ws] = "new" /\ wsState'[ws] = "open")
               => /\ liveStatuses' = liveStatuses
                  /\ outbox'[ws][Len(outbox'[ws])] = AllStatusesMsg(liveStatuses)]_vars
    /\ [][(Handled /\ ~CacheInStore')
             => (~CacheInStore \/ PersistFailed)]_vars

\* the text "a" was stored, the upsert of the text " b" for the same pair
\* threw, and the websocket opened afterwards was sent " b" while the table
\* holds "a"
C17_Witness ==
    /\ success = "false"
    /\ handled = 2
    /\ wsState["ws2"] = "open"
    /\ Len(outbox["ws2"]) = 1
    /\ HasEntry(outbox["ws2"][1].payload, Emp1, D15)
    /\ outbox["ws2"][1].payload[Emp1][D15] = <<" ", "b">>
    /\ <<Emp1, D15>> \in DOMAIN dbRows
    /\ dbRows[<<Emp1, D15>>] = <<"a">>

-----------------------------------------------------------------------------
\* C18: the update pipeline trims the text before using it: every text in
\* the cache and every text in the table is free of leading and trailing
\* whitespace, and after an update the cache holds the trimmed text of the
\* frame.
C18_TextTrimmed ==
    /\ \A u \in DOMAIN liveStatuses : \A d \in DOMAIN liveStatuses[u] :
          liveStatuses[u][d] = Trim(liveStatuses[u][d])
    /\ \A k \in DOMAIN dbRows : dbRows[k] = Trim(dbRows[k])

-----------------------------------------------------------------------------
\* the cache holds exactly the rows of the table: every pair of the cache is
\* a row with the same text, every row is a pair of the cache
CacheEqualsTable ==
    /\ CacheInStore
    /\ \A k \in DOMAIN dbRows : HasEntry(liveStatuses, k[1], k[2])
    /\ \A u \in DOMAIN liveStatuses : DOMAIN liveStatuses[u] # {}

\* C19: when the server process starts again the table is left as it is and
\* the cache is rebuilt to hold exactly its rows, each with its text and
\* nothing else, so that what was stored before the restart is in the
\* snapshots sent after it and what was not stored is not; when loading
\* fails the cache starts empty; either way the process runs on and accepts
\* websockets.
C19_StartupRebuild ==
    /\ [][restarts' # restarts
             => /\ dbRows' = dbRows
                /\ loaded' = "ok" => CacheEqualsTable'
                /\ loaded' = "failed" => liveStatuses' = EmptyObj
                /\ \A c \in Conns : wsState'[c] = "new"]_vars
    /\ [][\A ws \in Conns :
            (wsState[ws] = "new" /\ wsState'[ws] = "open")
               => outbox'[ws] = <<AllStatusesMsg(liveStatuses')>>]_vars

\* of two updates one was stored and one was not; after the restart the
\* websocket that opened was sent a snapshot with the stored one alone
C19_Witness ==
    /\ restarts = 1
    /\ loaded = "ok"
    /\ handled = 2
    /\ DOMAIN dbRows = {<<Emp1, D15>>}
    /\ dbRows[<<Emp1, D15>>] = <<>>
    /\ wsState["ws1"] = "open"
    /\ outbox["ws1"] = << AllStatusesMsg(Emp1 :> (D15 :> <<>>)) >>

-----------------------------------------------------------------------------
\* the frame handled in this step is an update that repeats the (subject,
\* day, text) of the update handled just before it
RepeatsLastUpdate ==
    /\ Handled
    /\ IsUpdateType(Frame)
    /\ PassesValidation(Frame)
    /\ lastFrame.ws # "none"
    /\ IsUpdateType(lastFrame.msg)
    /\ PassesValidation(lastFrame.msg)
    /\ SubjectOf(lastFrame.msg) = SubjectOf(Frame)
    /\ DayOf(lastFrame.msg) = DayOf(Frame)
    /\ TextOf(lastFrame.msg) = TextOf(Frame)

\* C20: idempotence.  Applying the same (subject, day, text) a second time
\* right after the first leaves the cache exactly as the first left it, and
\* the table too when the first was stored; when the second is stored the
\* table holds that text for the pair, as after one stored application.
C20_Idempotent ==
    [][RepeatsLastUpdate
          => /\ liveStatuses' = liveStatuses
             /\ success = "true" => dbRows' = dbRows
             /\ success' = "true" =>
                   dbRows' = Upsert(dbRows, SubjectOf(Frame), DayOf(Frame), TextOf(Frame))]_vars

\* the same update was applied twice in a row (ws1 received its broadcast
\* twice) and cache and table hold the one entry
C20_Witness ==
    /\ handled = 2
    /\ outbox["ws1"] = << AllStatusesMsg(EmptyObj),
                          StatusUpdateMsg(Emp1, D15, <<" ", "b">>),
                          StatusUpdateMsg(Emp1, D15, <<" ", "b">>) >>
    /\ liveStatuses = (Emp1 :> (D15 :> <<" ", "b">>))
    /\ dbRows = (<<Emp1, D15>> :> <<" ", "b">>)

-----------------------------------------------------------------------------
\* C21: a websocket that closes is unsubscribed from the topic, with cache
\* and messages sent left as they are; a closed websocket stays closed, is
\* no subscriber and is sent nothing any more, whatever is published later,
\* and a further close of it changes neither the subscribers nor the cache.
C21_ClosedIsTerminal ==
    /\ [](\A ws \in Conns : wsState[ws] = "closed" => ws \notin subscribers)
    /\ [][\A ws \in Conns :
            (wsState[ws] = "open" /\ wsState'[ws] = "closed")
               => /\ subscribers' = subscribers \ {ws}
                  /\ liveStatuses' = liveStatuses
                  /\ outbox' = outbox]_vars
    /\ [][\A ws \in Conns :
            wsState[ws] = "closed"
               => /\ wsState'[ws] = "closed"
                  /\ ws \notin subscribers'
                  /\ outbox'[ws] = outbox[ws]]_vars

\* ws2 received the broadcast of the first update, closed, and was not sent
\* the second one, which ws1 received
C21_Witness ==
    /\ wsState["ws2"] = "closed"
    /\ wsState["ws1"] = "open"
    /\ Len(outbox["ws2"]) = 2
    /\ outbox["ws2"][2].type = "status_update"
    /\ Len(outbox["ws1"]) = 3
    /\ outbox["ws1"][2] = outbox["ws2"][2]
    /\ outbox["ws1"][3].type = "status_update"

-----------------------------------------------------------------------------
\* C22: the retry counter is zero after every transition of the agent to
\* Open, whatever number of attempts had failed before, and stays zero while
\* the agent is Open; in every reachable state it lies between 0 and
\* MAX_RECONNECT_ATTEMPTS.
C22_CounterResetOnOpen ==
    /\ [](reconnectAttempts \in 0..MAX_RECONNECT_ATTEMPTS)
    /\ [](AgentOpen => reconnectAttempts = 0)
    /\ [][(~AgentOpen /\ AgentOpen') => reconnectAttempts' = 0]_vars

\* the agent is Open with its counter at zero on its second socket: the
\* first one it dropped when a send threw, which took the counter to 1
C22_Witness ==
    /\ AgentOpen
    /\ reconnectAttempts = 0
    /\ ~resumed
    /\ \E id \in DOMAIN transports : id # socket /\ ~transports[id].hooked

-----------------------------------------------------------------------------
\* C23: calling the function addWebSocketMessageListener returned for a
\* callback takes that callback out of the Set and leaves the others, in
\* their order; calling it when the callback is not in the Set changes
\* nothing; a callback that is no function is not registered and its remover
\* changes nothing; only these calls change the Set, and a dispatch invokes
\* exactly the callbacks in the Set, so none that has been removed.
C23_Deregistration ==
    [][/\ lastCall'.op = "remove" =>
             /\ lastCall'.l \notin Registered'
             /\ messageListeners' = SelectSeq(messageListeners, LAMBDA x : x # lastCall'.l)
             /\ ~lastCall'.was => messageListeners' = messageListeners
       /\ lastCall'.op = "add" =>
             /\ Registered' = Registered \cup {lastCall'.l}
             /\ SubSeq(messageListeners', 1, Len(messageListeners)) = messageListeners
       /\ lastCall'.op \in {"addInvalid", "removeNothing", "none"} =>
             messageListeners' = messageListeners
       /\ Dispatched =>
             \A l \in Listeners :
                lastDispatch'.invoked[l] = IF l \in Registered' THEN 1 ELSE 0]_vars

\* the remover of the callback registered first was called: the Set holds
\* the other callback alone
C23_Witness ==
    /\ lastCall.op = "remove"
    /\ lastCall.was
    /\ lastCall.l = "l1"
    /\ messageListeners = <<"l2">>

-----------------------------------------------------------------------------
\* every callback in the Set was invoked once with the message of this step
NotifiedOnce ==
    \A l \in Listeners : lastDispatch'.invoked[l] = IF l \in Registered THEN 1 ELSE 0

\* C24: the listeners are sent connection_status 'open' in exactly the
\* steps in which the agent becomes Open, and connection_status 'closed' in
\* exactly the steps in which the agent loses its socket or fails to
\* construct one; each such message reaches every registered listener once.
C24_StatusNotifications ==
    [][/\ (~AgentOpen /\ AgentOpen') <=> lastDispatch'.msg = ConnectionStatus("open")
       /\ lastDispatch'.msg = ConnectionStatus("open") => NotifiedOnce
       /\ (socket # 0 /\ socket' = 0) => lastDispatch'.msg = ConnectionStatus("closed")
       /\ lastDispatch'.msg = ConnectionStatus("closed") =>
             /\ NotifiedOnce
             /\ socket' = 0
             /\ socket = 0 =>
                   /\ DOMAIN transports' \subseteq DOMAIN transports
                   /\ \/ autoAttempts' = autoAttempts + 1
                      \/ (autoAttempts' = 0 /\ reconnectAttempts' = 1)]_vars

\* both listeners were told 'open' for the agent's second socket; the first
\* one the agent had dropped, telling them 'closed'
C24_Witness ==
    /\ lastDispatch.msg = ConnectionStatus("open")
    /\ AgentOpen
    /\ Len(messageListeners) = 2
    /\ \A l \in Listeners : lastDispatch.invoked[l] = 1
    /\ \E id \in DOMAIN transports : id # socket /\ ~transports[id].hooked

-----------------------------------------------------------------------------
\* C25: the cache and the rows of the table change only in a step in which
\* the message handler acts on an inbound update that passes validation:
\* websocket open and close, rejected and unknown messages, GET /api/statuses
\* (answered 200 with the cache as it is) and POST /api/statuses (answered
\* 405) leave both as they are.
C25_OnlyPipelineMutates ==
    [][/\ (liveStatuses' # liveStatuses \/ dbRows' # dbRows)
             => (Handled /\ IsUpdateType(Frame) /\ PassesValidation(Frame))
       /\ httpResponse'.status # 0
             => /\ httpResponse'.status \in {200, 405}
                /\ httpResponse'.status = 200 => httpResponse'.body = liveStatuses
                /\ liveStatuses' = liveStatuses
                /\ dbRows' = dbRows
                /\ outbox' = outbox]_vars

\* a POST /api/statuses was answered 405 after an update had filled the
\* cache, which holds no entry for the pair of the POST
C25_Witness ==
    /\ httpResponse.status = 405
    /\ handled = 1
    /\ HasEntry(liveStatuses, Emp1, D15)
    /\ ~HasEntry(liveStatuses, Emp2, D16)
    /\ DOMAIN dbRows = {<<Emp1, D15>>}

-----------------------------------------------------------------------------
(* The App component's view of the statuses (handleWebSocketMessage) *)

\* handleWebSocketMessage merging the snapshot into the statuses it holds
ApplyMessageMerge(statuses, msg) ==
    IF msg.type = "all_statuses" THEN statuses @@ msg.payload
    ELSE IF msg.type = "status_update"
    THEN LET userId == msg.payload.userId
             date == msg.payload.date
             statusText == msg.payload.statusText
         IN  IF HasEntry(statuses, userId, date) /\ statuses[userId][date] = statusText
             THEN statuses
             ELSE SetKey(statuses, userId,
                         SetKey(IF userId \in DOMAIN statuses THEN statuses[userId]
                                ELSE EmptyObj,
                                date, statusText))
    ELSE statuses

\* handleWebSocketMessage(message) applied to the statuses state
ApplyMessage(statuses, msg) ==
    IF msg.type = "all_statuses" THEN msg.payload
    ELSE IF msg.type = "status_update"
    THEN LET userId == msg.payload.userId
             date == msg.payload.date
             statusText == msg.payload.statusText
         IN  IF HasEntry(statuses, userId, date) /\ statuses[userId][date] = statusText
             THEN statuses
             ELSE SetKey(statuses, userId,
                         SetKey(IF userId \in DOMAIN statuses THEN statuses[userId]
                                ELSE EmptyObj,
                                date, statusText))
    ELSE statuses

\* the statuses state after the first n of the messages msgs, from {}
RECURSIVE ApplyAll(_, _)
ApplyAll(msgs, n) ==
    IF n = 0 THEN EmptyObj ELSE ApplyMessage(ApplyAll(msgs, n - 1), msgs[n])

\* the view of the client of websocket c once every message sent to it has
\* been delivered
ClientView(c) == ApplyAll(outbox[c], Len(outbox[c]))

\* C26: the client of every open websocket, having applied its snapshot and
\* then every status_update sent to it, in order, holds for every (subject,
\* day) the text of the server's cache, whatever updates came from whatever
\* clients, those whose upsert threw and those with blank text included.
C26_Convergence ==
    \A c \in Conns : wsState[c] = "open" => ClientView(c) = liveStatuses

-----------------------------------------------------------------------------
(* The transports the agent has dropped, and its reconnect timer *)

\* the WebSocket objects the agent constructed and no longer references
Dropped == {id \in DOMAIN transports : id # socket}

\* C27: whenever the agent drops its reference to a WebSocket
\* (handleWebSocketClose, the path taken when send() throws on an OPEN socket
\* included), that WebSocket is closed: none that the agent constructed is
\* still connecting, open or closing while the agent no longer references it.
C27_DroppedTransportClosed ==
    \A id \in Dropped : transports[id].readyState = "CLOSED"

\* C28: at most one reconnect timer is pending, one is pending only while the
\* agent holds no socket, the pending one is the one reconnectTimeoutId
\* remembers, and a step that gives the agent a socket (connectWebSocket()
\* while a timer is pending included) leaves no timer pending, so that no
\* cancelled timer starts a second handshake.
C28_TimerDiscipline ==
    /\ [](/\ Cardinality(timers) <= 1
          /\ timers # {} => socket = 0
          /\ timers \subseteq {reconnectTimeoutId})
    /\ [][(socket = 0 /\ socket' # 0) =>
             (timers' = {} /\ reconnectTimeoutId' = 0)]_vars

\* connectWebSocket() was called while the first reconnect timer was
\* pending: the agent has a new socket CONNECTING, the counter is 0 again,
\* and no timer is left
C28_Witness ==
    /\ socket # 0
    /\ transports[socket].readyState = "CONNECTING"
    /\ Dropped # {}
    /\ reconnectAttempts = 0
    /\ autoAttempts = 0
    /\ giveUps = 0
    /\ ~resumed
    /\ timers = {}

\* the step is an event of a WebSocket the agent has dropped
StaleEvent ==
    \E id \in Dropped : id \notin DOMAIN transports' \/ transports'[id] # transports[id]

\* C29: once the agent has handled the close of a socket the handlers of
\* that socket are gone: only the current socket has handlers, a dropped
\* socket never gets them back, an event of a dropped socket is not
\* dispatched to the listeners and changes neither the retry counter nor the
\* current socket nor the timer, the messages of the server that are
\* dispatched come from the current socket, and the close handling of a
\* socket drops it, so that it runs at most once for each socket.
C29_StaleEventsInert ==
    /\ [](\A id \in DOMAIN transports : transports[id].hooked => id = socket)
    /\ [][\A id \in Dropped :
              id \in DOMAIN transports' => (id # socket' /\ ~transports'[id].hooked)]_vars
    /\ [][StaleEvent =>
             /\ ~Dispatched
             /\ reconnectAttempts' = reconnectAttempts
             /\ socket' = socket
             /\ timers' = timers
             /\ reconnectTimeoutId' = reconnectTimeoutId
             /\ giveUps' = giveUps]_vars
    /\ [][(Dispatched /\ lastDispatch'.msg.type \in ServerFrames) =>
             (socket # 0 /\ socket' = socket /\ transports[socket].hooked)]_vars
    /\ [][(Dispatched /\ lastDispatch'.msg = ConnectionStatus("closed") /\ socket # 0) =>
             /\ socket' = 0
             /\ socket \in DOMAIN transports' => ~transports'[socket].hooked]_vars

\* a dropped socket that stayed open has had the closing event while its
\* successor is open with the retry counter at 0
C29_Witness ==
    /\ AgentOpen
    /\ reconnectAttempts = 0
    /\ \E id \in Dropped : transports[id].readyState = "CLOSING" /\ ~transports[id].hooked

-----------------------------------------------------------------------------
(* The agent connected to this server *)

\* the updates that reach the server while the agent is followed
SessionMessages ==
    { Obj(Str("status_update"), Payload(Str(Emp1), Str(D15), Str(t))) :
         t \in {<<"a">>, <<" ", "b">>} }

\* WebSocket objects that are gone have no connection any more
KeepLinks(s) ==
    [s EXCEPT !.link = [id \in DOMAIN s.link \cap DOMAIN transports' |-> s.link[id]]]

\* the websockets the server has not seen yet: the connections the agent can
\* still make
FreshConns == {c \in Conns \ session.used : wsState[c] = "new"}

\* new WebSocket(WS_BASE_URL) asks this server for a connection: the object
\* is the other end of a websocket the server has not seen yet
LinkNew(s) ==
    IF socket = 0 /\ socket' # 0
    THEN LET c == CHOOSE c \in FreshConns : TRUE
         IN  [s EXCEPT !.link = @ @@ (socket' :> [conn |-> c, delivered |-> 0]),
                       !.used = @ \cup {c}]
    ELSE s

\* what the listeners are given in this step: an open event starts the
\* record of a connection, a closed event ends it, and a message of the
\* server goes through the App's handleWebSocketMessage
Observe(s, m) ==
    IF ~Dispatched THEN s
    ELSE IF m = ConnectionStatus("open")
    THEN [s EXCEPT !.observed = <<m>>, !.conn = s.link[socket'].conn]
    ELSE IF m = ConnectionStatus("closed")
    THEN IF s.observed = <<>> \/ s.observed[Len(s.observed)] = m
         THEN s
         ELSE [s EXCEPT !.observed = Append(@, m)]
    ELSE [s EXCEPT !.observed = Append(@, m), !.view = ApplyMessage(@, m)]

\* connectWebSocket() of the agent connected to this server
SessionConnect ==
    /\ FreshConns # {}
    /\ ConnectWebSocket(FALSE, {})
    /\ session' = LinkNew(KeepLinks(Observe(session, ConnectionStatus("closed"))))

\* the reconnect timer fires
SessionTimerFires(t) ==
    /\ FreshConns # {}
    /\ TimerFires(t, FALSE, {})
    /\ session' = LinkNew(KeepLinks(Observe(session, ConnectionStatus("closed"))))

\* the server accepts the connection the agent asked for: websocket.open
SessionAccept(id) ==
    /\ id \in DOMAIN session.link
    /\ WsOpen(session.link[id].conn)

\* the server has accepted the connection and the open event arrives
SessionOpen(id) ==
    /\ id \in DOMAIN session.link
    /\ wsState[session.link[id].conn] # "new"
    /\ TransportOpen(id, {})
    /\ session' = KeepLinks(Observe(session, ConnectionStatus("open")))

\* the next message the server has sent on the websocket arrives on the
\* WebSocket object that is its other end: socket.onmessage with event.data
\* the text the server sent
SessionDeliver(id) ==
    /\ id \in DOMAIN session.link
    /\ session.link[id].delivered < Len(outbox[session.link[id].conn])
    /\ LET m == outbox[session.link[id].conn][session.link[id].delivered + 1]
       IN  /\ TransportMessage(id, m.type, {})
           /\ session' = KeepLinks(Observe([session EXCEPT !.link[id].delivered = @ + 1], m))

\* the connection of WebSocket id ends, or its handshake fails
SessionClose(id) ==
    /\ TransportClose(id, {})
    /\ session' = KeepLinks(Observe(session, ConnectionStatus("closed")))

\* sendWebSocketMessage(message) on the open socket, with a message on
\* which socket.send(JSON.stringify(message)) throws
SessionSendThrows ==
    /\ CanSend(Agent)
    /\ SendWebSocketMessage(TRUE, {})
    /\ session' = KeepLinks(Observe(session, ConnectionStatus("closed")))

\* an update reaches the server on an open websocket and is saved
SessionUpdate(ws, m) ==
    /\ WsMessage(ws, m)
    /\ success' = "true"

SessionNext ==
    \/ SessionConnect
    \/ \E t \in timers : SessionTimerFires(t)
    \/ \E id \in DOMAIN transports : SessionAccept(id)
    \/ \E id \in DOMAIN transports : SessionOpen(id)
    \/ \E id \in DOMAIN transports : SessionDeliver(id)
    \/ \E id \in DOMAIN transports : SessionClose(id)
    \/ SessionSendThrows
    \/ \E ws \in Conns, m \in SessionMessages : SessionUpdate(ws, m)
    \/ \E ws \in Conns : WsClose(ws)

\* the server and one agent connected to it
SessionSpec == Init /\ [][SessionNext]_vars

-----------------------------------------------------------------------------
(* What the listeners are given over a connection *)

\* the listeners have been given the open event of a connection, then the
\* first k messages the server sent on it, in the order it sent them, then at
\* most the closed event; from the first of the messages on, the App's
\* statuses are what these k messages alone make of them
ObservedInOrder ==
    LET o == session.observed
    IN  o # <<>> =>
          /\ o[1] = ConnectionStatus("open")
          /\ session.conn \in Conns
          /\ \E k \in 0..Len(outbox[session.conn]) :
                /\ Len(o) \in {k + 1, k + 2}
                /\ \A i \in 1..k : o[i + 1] = outbox[session.conn][i]
                /\ Len(o) = k + 2 => o[k + 2] = ConnectionStatus("closed")
                /\ k >= 1 => session.view = ApplyAll(outbox[session.conn], k)

\* on every websocket the server sends the snapshot first and no second one
SnapshotFirst ==
    \A c \in Conns : \A i \in 1..Len(outbox[c]) :
        (outbox[c][i].type = "all_statuses") <=> (i = 1)

\* the server sends one message at a time: the snapshot is the cache of that
\* moment, and a status_update is the one the handler has just written to the
\* cache
SentAsApplied ==
    \A c \in Conns : outbox'[c] # outbox[c] =>
        /\ Len(outbox'[c]) = Len(outbox[c]) + 1
        /\ SubSeq(outbox'[c], 1, Len(outbox[c])) = outbox[c]
        /\ LET m == outbox'[c][Len(outbox'[c])]
           IN  /\ m.type = "all_statuses" => m.payload = liveStatuses
               /\ m.type = "status_update" =>
                     /\ Handled
                     /\ HasEntry(liveStatuses', m.payload.userId, m.payload.date)
                     /\ liveStatuses'[m.payload.userId][m.payload.date] = m.payload.statusText

\* C30: for each connection that succeeds the listeners are given the open
\* event first, then the all_statuses snapshot, then the messages that follow
\* it in the order the server sent them, which is the order it applied the
\* updates in, and nothing of that connection after its closed event; the
\* snapshot of a new connection replaces the whole of the App's statuses,
\* whatever they were, by the cache of the moment the server accepted.
C30_EventOrder ==
    /\ [](ObservedInOrder /\ SnapshotFirst)
    /\ [][SentAsApplied]_vars
    /\ [][(Dispatched /\ lastDispatch'.msg.type = "all_statuses") =>
             /\ Len(session'.observed) = 2
             /\ session'.view = session'.observed[2].payload]_vars

\* the agent's first connection succeeded and was dropped by a send that
\* threw; an update the server published after that never arrived on it; the
\* agent is open on its second connection, whose snapshot has just made the
\* App hold the text of that update
C30_Witness ==
    /\ AgentOpen
    /\ Len(session.observed) = 2
    /\ HasEntry(session.view, Emp1, D15)
    /\ session.view = liveStatuses
    /\ \E id \in Dropped :
          LET c == session.link[id].conn
              n == session.link[id].delivered
          IN  /\ c # session.conn
              /\ n >= 2
              /\ Len(outbox[c]) > n
              /\ outbox[c][Len(outbox[c])].payload.statusText = session.view[Emp1][D15]
              /\ \A i \in 2..n :
                    outbox[c][i].payload.statusText # session.view[Emp1][D15]

====
